---- MODULE Spec2Model ----
(***************************************************************************)
(* Expansion of the implem! / internal! macros of the implem crate,        *)
(* modelled as in-place rewriting of a sequence of items: pending macro    *)
(* invocations, emitted trait implementations and compile errors.          *)
(*                                                                         *)
(* Tokens are strings.  A type, a pattern and an expression are each one   *)
(* atomic token; delimiters of the brace group of a request are the        *)
(* tokens "{" and "}".  A rule of macro_rules is a sequence of pattern     *)
(* elements (literal tokens and $name:fragment binders); the rules of a    *)
(* macro are tried in source order and the first that matches is           *)
(* transcribed.  Only token-level mismatches are covered (a literal that   *)
(* differs, a fragment that cannot start at the token): these make a rule  *)
(* fail and the next one be tried.                                         *)
(***************************************************************************)
EXTENDS Integers, Sequences, FiniteSets, TLC

VARIABLES input, items

vars == <<input, items>>

(***************************************************************************)
(* Bounds of the model.                                                    *)
(***************************************************************************)
MaxBlocks == 2
MaxReqs == 2

(***************************************************************************)
(* Token classes: what the fragment specifiers of the rules accept.        *)
(***************************************************************************)
KnownTraits ==
  {"Display", "Debug", "From", "Into", "Deref", "DerefMut", "Index", "IndexMut"}

IdentToks ==
  KnownTraits \cup {"Clone", "self", "mut", "fmt", "s", "idx", "Target", "Output"}

PatToks == {"fmt", "s", "idx"}

TyToks == {"String", "&'a str", "usize", "u8", "MyStruct", "&'a MyStruct", "Wrap<T>"}

ExprToks == {"e1", "e2", "e3", "e4", "e5", "e6", "e7", "e8", "e9", "e10", "e11", "e12", "e13", "m6", "m9"}

FragmentAccepts(frag, tok) ==
  CASE frag = "ident" -> tok \in IdentToks
    [] frag = "pat" -> tok \in PatToks
    [] frag = "ty" -> tok \in TyToks
    [] frag = "expr" -> tok \in ExprToks
    [] OTHER -> FALSE

(***************************************************************************)
(* Pattern elements: a literal token, or a binder $v:k.                    *)
(***************************************************************************)
L(tok) == [k |-> "lit", v |-> tok]
F(frag, name) == [k |-> frag, v |-> name]

ElemMatches(e, tok) ==
  IF e.k = "lit" THEN tok = e.v ELSE FragmentAccepts(e.k, tok)

\* The pattern matches a prefix of toks; the rest is $($tail:tt)*.
PrefixMatches(pat, toks) ==
  /\ Len(pat) <= Len(toks)
  /\ \A i \in 1..Len(pat) : ElemMatches(pat[i], toks[i])

Binders(pat) == {i \in 1..Len(pat) : pat[i].k # "lit"}

\* The token bound to each metavariable of the pattern.
Bindings(pat, toks) ==
  [x \in {pat[i].v : i \in Binders(pat)} |->
     toks[CHOOSE i \in Binders(pat) : pat[i].v = x]]

Rest(pat, toks) == SubSeq(toks, Len(pat) + 1, Len(toks))

(***************************************************************************)
(* Items of the expansion.                                                 *)
(***************************************************************************)
\* implem! { blocks }
ImplemCall(blocks) == [kind |-> "implem", blocks |-> blocks]

\* internal! { @(t_params)(where_clauses)(self_ty) toks }
InternalCall(t_params, where_clauses, self_ty, toks) ==
  [kind |-> "internal", at |-> TRUE, t_params |-> t_params,
   where_clauses |-> where_clauses, self_ty |-> self_ty, toks |-> toks]

\* internal! {}
InternalEmptyCall ==
  [kind |-> "internal", at |-> FALSE, t_params |-> <<>>,
   where_clauses |-> <<>>, self_ty |-> "", toks |-> <<>>]

\* impl<t_params> trait<targs> for self_ty where where_clauses
\*   { type assoc; fn fn(sig) -> ret { def } }
Impl(inv, trait, targs, assoc, fn, sig, ret, def) ==
  [kind |-> "impl", t_params |-> inv.t_params, where_clauses |-> inv.where_clauses,
   self_ty |-> inv.self_ty, trait |-> trait, targs |-> targs, assoc |-> assoc,
   fn |-> fn, sig |-> sig, ret |-> ret, def |-> def]

\* compile_error!(concat!(.., stringify!($unk), ..)) of the unknown-trait rule
\* (BQ stands for the backquote character of the two literal pieces)
BQ == "'"

CompileError(unk) ==
  [kind |-> "error", msg |-> ("expected known trait, got " \o BQ) \o unk \o BQ]

\* No rule of the macro matches the invocation: the error the compiler itself raises.
NoRulesExpected == [kind |-> "nomatch"]

IsPending(it) == it.kind \in {"implem", "internal"}

(***************************************************************************)
(* The patterns of the rules of internal!, after the @(..)(..)(ty) header  *)
(* and up to $($tail:tt)*.  o.bundle and o.comma say which of the          *)
(* optional groups $( , |&mut ..| .. )? and $(,)? are taken.               *)
(***************************************************************************)
Opts == [bundle : BOOLEAN, comma : BOOLEAN]

OptComma(o) == IF o.comma THEN <<L(",")>> ELSE <<>>

Display_pat ==
  <<L("Display"), L("{"), L("|"), L("&"), F("ident", "slf"), L(","), F("pat", "fmt"),
    L("|"), F("expr", "def"), L("}")>>

\* Slip: the Debug rule pasted from the Display rule with its name left as it was.
Debug_pat_still_display == Display_pat

Debug_pat ==
  <<L("Debug"), L("{"), L("|"), L("&"), F("ident", "slf"), L(","), F("pat", "fmt"),
    L("|"), F("expr", "def"), L("}")>>

From_pat ==
  [o \in Opts |->
    <<L("From"), L("<"), F("ty", "src_ty"), L(">"), L("{"), L("|"), F("pat", "src"),
      L("|"), F("expr", "def")>> \o OptComma(o) \o <<L("}")>>]

Into_pat ==
  [o \in Opts |->
    <<L("Into"), L("<"), F("ty", "tgt_ty"), L(">"), L("{"), L("|"), F("ident", "slf"),
      L("|"), F("expr", "def")>> \o OptComma(o) \o <<L("}")>>]

Deref_pat ==
  [o \in Opts |->
    <<L("Deref"), L("<"), L("Target"), L("="), F("ty", "tgt_ty"), L(">"), L("{"),
      L("|"), L("&"), F("ident", "slf"), L("|"), F("expr", "def")>>
    \o (IF o.bundle
          THEN <<L(","), L("|"), L("&"), L("mut"), F("ident", "slf_mut"), L("|"),
                 F("expr", "def_mut")>>
          ELSE <<>>)
    \o OptComma(o) \o <<L("}")>>]

DerefMut_pat ==
  [o \in Opts |->
    <<L("DerefMut"), L("{"), L("|"), L("&"), L("mut"), F("ident", "slf"), L("|"),
      F("expr", "def")>> \o OptComma(o) \o <<L("}")>>]

Index_pat ==
  [o \in Opts |->
    <<L("Index"), L("<"), F("ty", "idx_ty"), L(","), L("Output"), L("="),
      F("ty", "out_ty"), L(">"), L("{"), L("|"), L("&"), F("ident", "slf"), L(","),
      F("pat", "idx"), L("|"), F("expr", "def")>>
    \o (IF o.bundle
          THEN <<L(","), L("|"), L("&"), L("mut"), F("ident", "slf_mut"), L(","),
                 F("pat", "idx_mut"), L("|"), F("expr", "def_mut")>>
          ELSE <<>>)
    \o OptComma(o) \o <<L("}")>>]

IndexMut_pat ==
  [o \in Opts |->
    <<L("IndexMut"), L("<"), F("ty", "idx_ty"), L(">"), L("{"), L("|"), L("&"),
      L("mut"), F("ident", "slf"), L(","), F("pat", "idx"), L("|"),
      F("expr", "def_mut")>> \o OptComma(o) \o <<L("}")>>]

Unknown_pat == <<F("ident", "unk")>>

NoOpt == [bundle |-> FALSE, comma |-> FALSE]

\* The ways the optional groups of a rule can be taken.
Options(r) ==
  CASE r \in {"Display", "Debug", "unknown"} -> {NoOpt}
    [] r \in {"From", "Into", "DerefMut", "IndexMut"} ->
         {o \in Opts : ~o.bundle}
    [] r \in {"Deref", "Index"} -> Opts
    [] OTHER -> {}

RulePattern(r, o) ==
  CASE r = "Display" -> Display_pat
    [] r = "Debug" -> Debug_pat
    [] r = "From" -> From_pat[o]
    [] r = "Into" -> Into_pat[o]
    [] r = "Deref" -> Deref_pat[o]
    [] r = "DerefMut" -> DerefMut_pat[o]
    [] r = "Index" -> Index_pat[o]
    [] r = "IndexMut" -> IndexMut_pat[o]
    [] r = "unknown" -> Unknown_pat

\* The rules of internal!, in source order.
RuleOrder ==
  <<"Display", "Debug", "From", "Into", "Deref", "DerefMut", "Index", "IndexMut",
    "unknown", "empty", "base">>

RecognizedRules == {RuleOrder[k] : k \in 1..8}

\* Whether the matcher of rule r accepts the invocation.
RuleMatches(r, inv) ==
  CASE r = "empty" -> ~inv.at /\ inv.toks = <<>>
    [] r = "base" -> inv.at /\ inv.toks = <<>>
    [] OTHER ->
         /\ inv.at
         /\ \E o \in Options(r) : PrefixMatches(RulePattern(r, o), inv.toks)

\* macro_rules transcribes the first rule, in source order, that matches:
\* rule r is the selected one when it matches and no rule before it does
\* ("none": no rule matches).
RulePos(r) == CHOOSE k \in 1..Len(RuleOrder) : RuleOrder[k] = r

Selects(inv, r) ==
  IF r = "none"
    THEN \A k \in 1..Len(RuleOrder) : ~RuleMatches(RuleOrder[k], inv)
    ELSE /\ RuleMatches(r, inv)
         /\ \A k \in 1..(RulePos(r) - 1) : ~RuleMatches(RuleOrder[k], inv)

SelectedRule(inv) == CHOOSE r \in {RuleOrder[k] : k \in 1..Len(RuleOrder)} \cup {"none"} : Selects(inv, r)

\* The pattern of rule r as it matched the invocation.
MatchedPattern(r, inv) ==
  RulePattern(r, CHOOSE o \in Options(r) : PrefixMatches(RulePattern(r, o), inv.toks))

MatchedOption(r, inv) ==
  CHOOSE o \in Options(r) : PrefixMatches(RulePattern(r, o), inv.toks)

(***************************************************************************)
(* Transcribers of the rules of internal!: the items an invocation is      *)
(* replaced by when the rule is the selected one.                          *)
(***************************************************************************)
Display_rule(inv) ==
  LET pat == MatchedPattern("Display", inv)
      b == Bindings(pat, inv.toks)
      tail == Rest(pat, inv.toks)
  IN <<Impl(inv, "std::fmt::Display", <<>>, <<>>, "fmt",
            <<"&", b.slf, ",", b.fmt, ":", "&mut std::fmt::Formatter">>,
            <<"std::fmt::Result">>, b.def),
       InternalCall(inv.t_params, inv.where_clauses, inv.self_ty, tail)>>

\* Slip: the Debug rule pasted from the Display rule with the trait left as it was.
Debug_rule_emits_display(inv) ==
  LET pat == MatchedPattern("Debug", inv)
      b == Bindings(pat, inv.toks)
      tail == Rest(pat, inv.toks)
  IN <<Impl(inv, "std::fmt::Display", <<>>, <<>>, "fmt",
            <<"&", b.slf, ",", b.fmt, ":", "&mut std::fmt::Formatter">>,
            <<"std::fmt::Result">>, b.def),
       InternalCall(inv.t_params, inv.where_clauses, inv.self_ty, tail)>>

Debug_rule(inv) ==
  LET pat == MatchedPattern("Debug", inv)
      b == Bindings(pat, inv.toks)
      tail == Rest(pat, inv.toks)
  IN <<Impl(inv, "std::fmt::Debug", <<>>, <<>>, "fmt",
            <<"&", b.slf, ",", b.fmt, ":", "&mut std::fmt::Formatter">>,
            <<"std::fmt::Result">>, b.def),
       InternalCall(inv.t_params, inv.where_clauses, inv.self_ty, tail)>>

From_rule(inv) ==
  LET pat == MatchedPattern("From", inv)
      b == Bindings(pat, inv.toks)
      tail == Rest(pat, inv.toks)
  IN <<Impl(inv, "std::convert::From", <<b.src_ty>>, <<>>, "from",
            <<b.src, ":", b.src_ty>>, <<"Self">>, b.def),
       InternalCall(inv.t_params, inv.where_clauses, inv.self_ty, tail)>>

Into_rule(inv) ==
  LET pat == MatchedPattern("Into", inv)
      b == Bindings(pat, inv.toks)
      tail == Rest(pat, inv.toks)
  IN <<Impl(inv, "std::convert::Into", <<b.tgt_ty>>, <<>>, "into",
            <<b.slf>>, <<b.tgt_ty>>, b.def),
       InternalCall(inv.t_params, inv.where_clauses, inv.self_ty, tail)>>

\* Slip: the bundled second body is matched and then forgotten.
Deref_rule_drops_bundle(inv) ==
  LET o == MatchedOption("Deref", inv)
      pat == Deref_pat[o]
      b == Bindings(pat, inv.toks)
      tail == Rest(pat, inv.toks)
  IN <<Impl(inv, "std::ops::Deref", <<>>, <<"Target", b.tgt_ty>>, "deref",
            <<"&", b.slf>>, <<"&", b.tgt_ty>>, b.def),
       InternalCall(inv.t_params, inv.where_clauses, inv.self_ty, tail)>>

\* Slip: the DerefMut request of the bundled body is put after the tail.
Deref_rule_bundle_after_tail(inv) ==
  LET o == MatchedOption("Deref", inv)
      pat == Deref_pat[o]
      b == Bindings(pat, inv.toks)
      tail == Rest(pat, inv.toks)
  IN <<Impl(inv, "std::ops::Deref", <<>>, <<"Target", b.tgt_ty>>, "deref",
            <<"&", b.slf>>, <<"&", b.tgt_ty>>, b.def),
       InternalCall(inv.t_params, inv.where_clauses, inv.self_ty,
         tail \o (IF o.bundle
                    THEN <<"DerefMut", "{", "|", "&", "mut", b.slf_mut, "|", b.def_mut, "}">>
                    ELSE <<>>))>>

Deref_rule(inv) ==
  LET o == MatchedOption("Deref", inv)
      pat == Deref_pat[o]
      b == Bindings(pat, inv.toks)
      tail == Rest(pat, inv.toks)
  IN <<Impl(inv, "std::ops::Deref", <<>>, <<"Target", b.tgt_ty>>, "deref",
            <<"&", b.slf>>, <<"&", b.tgt_ty>>, b.def),
       InternalCall(inv.t_params, inv.where_clauses, inv.self_ty,
         (IF o.bundle
            THEN <<"DerefMut", "{", "|", "&", "mut", b.slf_mut, "|", b.def_mut, "}">>
            ELSE <<>>) \o tail)>>

\* Slip: the recursive call is given the whole input again, not the tail.
DerefMut_rule_keeps_request(inv) ==
  LET pat == MatchedPattern("DerefMut", inv)
      b == Bindings(pat, inv.toks)
  IN <<Impl(inv, "std::ops::DerefMut", <<>>, <<>>, "deref_mut",
            <<"&", "mut", b.slf>>, <<"&", "mut", "<Self as std::ops::Deref>::Target">>,
            b.def),
       InternalCall(inv.t_params, inv.where_clauses, inv.self_ty, inv.toks)>>

DerefMut_rule(inv) ==
  LET pat == MatchedPattern("DerefMut", inv)
      b == Bindings(pat, inv.toks)
      tail == Rest(pat, inv.toks)
  IN <<Impl(inv, "std::ops::DerefMut", <<>>, <<>>, "deref_mut",
            <<"&", "mut", b.slf>>, <<"&", "mut", "<Self as std::ops::Deref>::Target">>,
            b.def),
       InternalCall(inv.t_params, inv.where_clauses, inv.self_ty, tail)>>

\* Slip: the IndexMut request of the bundled body is given the output type.
Index_rule_passes_out_ty(inv) ==
  LET o == MatchedOption("Index", inv)
      pat == Index_pat[o]
      b == Bindings(pat, inv.toks)
      tail == Rest(pat, inv.toks)
  IN <<Impl(inv, "std::ops::Index", <<b.idx_ty>>, <<"Output", b.out_ty>>, "index",
            <<"&", b.slf, ",", b.idx, ":", b.idx_ty>>, <<"&", "Self::Output">>, b.def),
       InternalCall(inv.t_params, inv.where_clauses, inv.self_ty,
         (IF o.bundle
            THEN <<"IndexMut", "<", b.out_ty, ">", "{", "|", "&", "mut", b.slf_mut,
                   ",", b.idx_mut, "|", b.def_mut, "}">>
            ELSE <<>>) \o tail)>>

Index_rule(inv) ==
  LET o == MatchedOption("Index", inv)
      pat == Index_pat[o]
      b == Bindings(pat, inv.toks)
      tail == Rest(pat, inv.toks)
  IN <<Impl(inv, "std::ops::Index", <<b.idx_ty>>, <<"Output", b.out_ty>>, "index",
            <<"&", b.slf, ",", b.idx, ":", b.idx_ty>>, <<"&", "Self::Output">>, b.def),
       InternalCall(inv.t_params, inv.where_clauses, inv.self_ty,
         (IF o.bundle
            THEN <<"IndexMut", "<", b.idx_ty, ">", "{", "|", "&", "mut", b.slf_mut,
                   ",", b.idx_mut, "|", b.def_mut, "}">>
            ELSE <<>>) \o tail)>>

IndexMut_rule(inv) ==
  LET pat == MatchedPattern("IndexMut", inv)
      b == Bindings(pat, inv.toks)
      tail == Rest(pat, inv.toks)
  IN <<Impl(inv, "std::ops::IndexMut", <<b.idx_ty>>, <<>>, "index_mut",
            <<"&", "mut", b.slf, ",", b.idx, ":", b.idx_ty>>,
            <<"&", "mut", "Self::Output">>, b.def_mut),
       InternalCall(inv.t_params, inv.where_clauses, inv.self_ty, tail)>>

\* Slip: the message names the self type instead of the unknown identifier.
Unknown_rule_names_self_ty(inv) == <<CompileError(inv.self_ty)>>

\* Slip: the rule goes on with the tokens that follow the unknown identifier.
Unknown_rule_goes_on(inv) ==
  LET b == Bindings(Unknown_pat, inv.toks)
  IN <<CompileError(b.unk),
       InternalCall(inv.t_params, inv.where_clauses, inv.self_ty,
                    Rest(Unknown_pat, inv.toks))>>

\* $unk:ident $($stuff:tt)*  =>  compile_error!(..): the stuff is dropped.
Unknown_rule(inv) ==
  LET b == Bindings(Unknown_pat, inv.toks)
  IN <<CompileError(b.unk)>>

\* {} => {}  and  @(..)(..)(ty) => {}
Base_rule(inv) == <<>>

(***************************************************************************)
(* implem!: a block is the optional impl (..), the self type, the optional *)
(* where (..) and the tokens between the braces; an optional part is a     *)
(* sequence of zero or one token sequences.                                *)
(***************************************************************************)
OptTokens(opt) == IF opt = <<>> THEN <<>> ELSE opt[1]

\* Slip: the type parameters are written in the place of the where clauses.
implem_rule_params_as_where(inv) ==
  LET blk == Head(inv.blocks)
      tail == Tail(inv.blocks)
  IN <<InternalCall(OptTokens(blk.impl), OptTokens(blk.impl), blk.self_ty, blk.stuff),
       ImplemCall(tail)>>

implem_rule(inv) ==
  LET blk == Head(inv.blocks)
      tail == Tail(inv.blocks)
  IN <<InternalCall(OptTokens(blk.impl), OptTokens(blk.where), blk.self_ty, blk.stuff),
       ImplemCall(tail)>>

implem_empty_rule(inv) == <<>>

(***************************************************************************)
(* The invocations explored: blocks of capability requests written in the  *)
(* syntax of the crate documentation.                                      *)
(***************************************************************************)
Closure(params, def) == [params |-> params, def |-> def]

Req(name, args, closures, comma) ==
  [name |-> name, args |-> args, closures |-> closures, comma |-> comma]

ReqPool ==
  { Req("Display", <<>>, <<Closure(<<"&", "self", ",", "fmt">>, "e1")>>, FALSE),
    Req("Debug", <<>>, <<Closure(<<"&", "self", ",", "fmt">>, "e2")>>, FALSE),
    Req("From", <<"<", "String", ">">>, <<Closure(<<"s">>, "e3")>>, FALSE),
    Req("Into", <<"<", "&'a str", ">">>, <<Closure(<<"self">>, "e4")>>, TRUE),
    Req("Deref", <<"<", "Target", "=", "String", ">">>,
        <<Closure(<<"&", "self">>, "e5")>>, FALSE),
    Req("Deref", <<"<", "Target", "=", "String", ">">>,
        <<Closure(<<"&", "self">>, "e6"), Closure(<<"&", "mut", "self">>, "m6")>>, TRUE),
    Req("DerefMut", <<>>, <<Closure(<<"&", "mut", "self">>, "e7")>>, FALSE),
    Req("Index", <<"<", "usize", ",", "Output", "=", "u8", ">">>,
        <<Closure(<<"&", "self", ",", "idx">>, "e8")>>, TRUE),
    Req("Index", <<"<", "usize", ",", "Output", "=", "u8", ">">>,
        <<Closure(<<"&", "self", ",", "idx">>, "e9"),
          Closure(<<"&", "mut", "self", ",", "idx">>, "m9")>>, FALSE),
    Req("IndexMut", <<"<", "usize", ">">>,
        <<Closure(<<"&", "mut", "self", ",", "idx">>, "e10")>>, FALSE),
    Req("Clone", <<>>, <<Closure(<<"&", "self">>, "e11")>>, FALSE),
    Req("Display", <<>>, <<Closure(<<"self", ",", "fmt">>, "e12")>>, FALSE),
    Req("42", <<>>, <<Closure(<<"s">>, "e13")>>, FALSE) }

\* |params| def
ClosureToks(c) == <<"|">> \o c.params \o <<"|", c.def>>

\* $trait_name $(< .. >)? { |$args| $def $(, |$args| $def)? $(,)? }
ReqToks(q) ==
  <<q.name>> \o q.args \o <<"{">> \o ClosureToks(q.closures[1])
  \o (IF Len(q.closures) = 2 THEN <<",">> \o ClosureToks(q.closures[2]) ELSE <<>>)
  \o (IF q.comma THEN <<",">> ELSE <<>>) \o <<"}">>

RECURSIVE Stuff(_)
Stuff(reqs) == IF reqs = <<>> THEN <<>> ELSE ReqToks(Head(reqs)) \o Stuff(Tail(reqs))

\* impl(T) for Wrap<T> where (T: Clone) / for MyStruct / impl('a) for &'a MyStruct
HeaderPool ==
  << [impl |-> << <<"T">> >>, self_ty |-> "Wrap<T>", where |-> << <<"T", ":", "Clone">> >>],
     [impl |-> <<>>, self_ty |-> "MyStruct", where |-> <<>>],
     [impl |-> << <<"'a">> >>, self_ty |-> "&'a MyStruct", where |-> <<>>] >>

Block(b) ==
  [impl |-> b.hdr.impl, self_ty |-> b.hdr.self_ty, where |-> b.hdr.where,
   stuff |-> Stuff(b.reqs)]

Blocks(inp) == [i \in 1..Len(inp) |-> Block(inp[i])]

SeqsUpTo(S, n) == UNION {[1..k -> S] : k \in 0..n}

RECURSIVE SumTo(_, _)
SumTo(f, n) == IF n = 0 THEN 0 ELSE f[n] + SumTo(f, n - 1)

\* flat cut into blocks of the given sizes, the headers taken in turn.
Cut(flat, sizes) ==
  [i \in 1..Len(sizes) |->
    [hdr |-> HeaderPool[((i - 1) % Len(HeaderPool)) + 1],
     reqs |-> SubSeq(flat, SumTo(sizes, i - 1) + 1, SumTo(sizes, i))]]

Inputs ==
  { Cut(c[1], c[2]) :
      c \in { d \in SeqsUpTo(ReqPool, MaxReqs) \X SeqsUpTo(0..MaxReqs, MaxBlocks) :
                SumTo(d[2], Len(d[2])) = Len(d[1]) } }

(***************************************************************************)
(* The state machine: the invocation as written, then one step per         *)
(* expansion of a pending macro invocation, replaced in place by what its  *)
(* selected rule transcribes.  The place of an item in the expansion does  *)
(* not depend on when its invocation is expanded.                          *)
(***************************************************************************)
Init ==
  \/ /\ input \in Inputs
     /\ items = <<ImplemCall(Blocks(input))>>
  \/ /\ input = <<>>
     /\ items = <<InternalEmptyCall>>

Splice(i, exp) ==
  /\ items' = SubSeq(items, 1, i - 1) \o exp \o SubSeq(items, i + 1, Len(items))
  /\ UNCHANGED input

\* The compiler expands the pending invocations in textual order, and those an
\* expansion produces before the ones that follow it.
Turn(i) == IsPending(items[i]) /\ \A j \in 1..(i - 1) : ~IsPending(items[j])

IsInternal(i, r) == Turn(i) /\ items[i].kind = "internal" /\ Selects(items[i], r)

ImplemBlock ==
  \E i \in DOMAIN items :
    /\ Turn(i) /\ items[i].kind = "implem" /\ items[i].blocks # <<>>
    /\ Splice(i, implem_rule(items[i]))

ImplemEmpty ==
  \E i \in DOMAIN items :
    /\ Turn(i) /\ items[i].kind = "implem" /\ items[i].blocks = <<>>
    /\ Splice(i, implem_empty_rule(items[i]))

InternalDisplay ==
  \E i \in DOMAIN items : IsInternal(i, "Display") /\ Splice(i, Display_rule(items[i]))

InternalDebug ==
  \E i \in DOMAIN items : IsInternal(i, "Debug") /\ Splice(i, Debug_rule(items[i]))

InternalFrom ==
  \E i \in DOMAIN items : IsInternal(i, "From") /\ Splice(i, From_rule(items[i]))

InternalInto ==
  \E i \in DOMAIN items : IsInternal(i, "Into") /\ Splice(i, Into_rule(items[i]))

InternalDeref ==
  \E i \in DOMAIN items : IsInternal(i, "Deref") /\ Splice(i, Deref_rule(items[i]))

InternalDerefMut ==
  \E i \in DOMAIN items : IsInternal(i, "DerefMut") /\ Splice(i, DerefMut_rule(items[i]))

InternalIndex ==
  \E i \in DOMAIN items : IsInternal(i, "Index") /\ Splice(i, Index_rule(items[i]))

InternalIndexMut ==
  \E i \in DOMAIN items : IsInternal(i, "IndexMut") /\ Splice(i, IndexMut_rule(items[i]))

InternalUnknown ==
  \E i \in DOMAIN items : IsInternal(i, "unknown") /\ Splice(i, Unknown_rule(items[i]))

InternalEmpty ==
  \E i \in DOMAIN items : IsInternal(i, "empty") /\ Splice(i, Base_rule(items[i]))

InternalBase ==
  \E i \in DOMAIN items : IsInternal(i, "base") /\ Splice(i, Base_rule(items[i]))

InternalNoRule ==
  \E i \in DOMAIN items : IsInternal(i, "none") /\ Splice(i, <<NoRulesExpected>>)

Next ==
  \/ ImplemBlock
  \/ ImplemEmpty
  \/ InternalDisplay
  \/ InternalDebug
  \/ InternalFrom
  \/ InternalInto
  \/ InternalDeref
  \/ InternalDerefMut
  \/ InternalIndex
  \/ InternalIndexMut
  \/ InternalUnknown
  \/ InternalEmpty
  \/ InternalBase
  \/ InternalNoRule

Spec == Init /\ [][Next]_vars

Done == \A i \in DOMAIN items : ~IsPending(items[i])

(***************************************************************************)
(* One expansion step as an operator, and expansion run to its end.        *)
(***************************************************************************)
ExpandItem(it) ==
  IF it.kind = "implem"
    THEN (IF it.blocks # <<>> THEN implem_rule(it) ELSE implem_empty_rule(it))
    ELSE LET r == SelectedRule(it)
         IN CASE r = "Display" -> Display_rule(it)
              [] r = "Debug" -> Debug_rule(it)
              [] r = "From" -> From_rule(it)
              [] r = "Into" -> Into_rule(it)
              [] r = "Deref" -> Deref_rule(it)
              [] r = "DerefMut" -> DerefMut_rule(it)
              [] r = "Index" -> Index_rule(it)
              [] r = "IndexMut" -> IndexMut_rule(it)
              [] r = "unknown" -> Unknown_rule(it)
              [] r \in {"empty", "base"} -> Base_rule(it)
              [] OTHER -> <<NoRulesExpected>>

RECURSIVE ExpandFully(_)
ExpandFully(its) ==
  IF \A i \in DOMAIN its : ~IsPending(its[i]) THEN its
  ELSE LET i == CHOOSE k \in DOMAIN its :
                  IsPending(its[k]) /\ \A j \in 1..(k - 1) : ~IsPending(its[j])
       IN ExpandFully(SubSeq(its, 1, i - 1) \o ExpandItem(its[i])
                      \o SubSeq(its, i + 1, Len(its)))

\* The expansion of implem! { inp }.
Expansion(inp) == ExpandFully(<<ImplemCall(Blocks(inp))>>)

(***************************************************************************)
(* Vocabulary of the properties: the requests of the invocation as the     *)
(* documentation describes them, and where their output lies.              *)
(***************************************************************************)
\* The shape of the parameters of a closure.
ParamShape(c) ==
  LET p == c.params
  IN CASE Len(p) = 1 /\ p[1] \in IdentToks -> "arg"
       [] Len(p) = 2 /\ p[1] = "&" /\ p[2] = "self" -> "&self"
       [] Len(p) = 3 /\ p[1] = "&" /\ p[2] = "mut" /\ p[3] = "self" -> "&mut self"
       [] Len(p) = 4 /\ p[1] = "&" /\ p[2] = "self" /\ p[3] = "," -> "&self, arg"
       [] Len(p) = 5 /\ p[1] = "&" /\ p[2] = "mut" /\ p[3] = "self" /\ p[4] = ","
            -> "&mut self, arg"
       [] OTHER -> "other"

\* The request is written as the documentation of its trait asks.
WellFormed(q) ==
  LET n == Len(q.closures)
      s1 == ParamShape(q.closures[1])
      s2 == IF n = 2 THEN ParamShape(q.closures[2]) ELSE "none"
  IN CASE q.name \in {"Display", "Debug"} ->
            q.args = <<>> /\ n = 1 /\ s1 = "&self, arg" /\ ~q.comma
       [] q.name \in {"From", "Into"} ->
            Len(q.args) = 3 /\ q.args[2] \in TyToks /\ n = 1 /\ s1 = "arg"
       [] q.name = "Deref" ->
            /\ Len(q.args) = 5 /\ q.args[2] = "Target" /\ q.args[4] \in TyToks
            /\ s1 = "&self" /\ s2 \in {"none", "&mut self"}
       [] q.name = "DerefMut" -> q.args = <<>> /\ n = 1 /\ s1 = "&mut self"
       [] q.name = "Index" ->
            /\ Len(q.args) = 7 /\ q.args[2] \in TyToks /\ q.args[4] = "Output"
            /\ q.args[6] \in TyToks
            /\ s1 = "&self, arg" /\ s2 \in {"none", "&mut self, arg"}
       [] q.name = "IndexMut" ->
            Len(q.args) = 3 /\ q.args[2] \in TyToks /\ n = 1 /\ s1 = "&mut self, arg"
       [] OTHER -> FALSE

Bundled(q) == Len(q.closures) = 2

\* The name of the request is an identifier outside the recognized set.
UnknownName(q) == q.name \in IdentToks \ KnownTraits

\* Request k of a block is reached: those before it are all well formed.
Reached(reqs, k) == \A h \in 1..(k - 1) : WellFormed(reqs[h])

RECURSIVE ClosuresUpTo(_, _)
ClosuresUpTo(reqs, k) ==
  IF k = 0 THEN 0 ELSE Len(reqs[k].closures) + ClosuresUpTo(reqs, k - 1)

\* The first request of the block that is not well formed (0: none).
FirstBad(reqs) ==
  IF \A k \in DOMAIN reqs : WellFormed(reqs[k]) THEN 0
  ELSE CHOOSE k \in DOMAIN reqs : ~WellFormed(reqs[k]) /\ Reached(reqs, k)

\* How many items a block leaves: one per closure of the requests reached and
\* well formed, and one for the request expansion stops at.
BlockOutLen(reqs) ==
  IF FirstBad(reqs) = 0 THEN ClosuresUpTo(reqs, Len(reqs))
  ELSE ClosuresUpTo(reqs, FirstBad(reqs) - 1) + 1

RECURSIVE BlocksOutLen(_, _)
BlocksOutLen(inp, j) ==
  IF j = 0 THEN 0 ELSE BlockOutLen(inp[j].reqs) + BlocksOutLen(inp, j - 1)

\* The place before the output of request k of block j.
Offset(inp, j, k) == BlocksOutLen(inp, j - 1) + ClosuresUpTo(inp[j].reqs, k - 1)

Positions(inp) == {jk \in (DOMAIN inp) \X (1..MaxReqs + 1) : jk[2] <= Len(inp[jk[1]].reqs)}

UnknownTraitMessage(name) == ("expected known trait, got " \o BQ) \o name \o BQ

(***************************************************************************)
(* C1: whenever the pending requests of a block start with an identifier   *)
(* that is not a recognized trait name, expanding internal! replaces the   *)
(* invocation by the single error "expected known trait, got <name>" with  *)
(* exactly that identifier, and by no implementation.                      *)
(***************************************************************************)
C1_UnknownNameIsRejected ==
  [][\A i \in DOMAIN items :
       ( /\ Turn(i) /\ items[i].kind = "internal" /\ items[i].at
         /\ items[i].toks # <<>>
         /\ Head(items[i].toks) \in IdentToks \ KnownTraits )
       => items' = SubSeq(items, 1, i - 1)
                   \o <<[kind |-> "error", msg |-> UnknownTraitMessage(Head(items[i].toks))]>>
                   \o SubSeq(items, i + 1, Len(items))]_vars

\* An unknown name in second position was rejected after the implementation
\* of the first request was emitted.
C1_Witness ==
  /\ Done
  /\ \E i \in DOMAIN items :
       /\ i > 1 /\ items[i - 1].kind = "impl"
       /\ items[i].kind = "error" /\ items[i].msg = UnknownTraitMessage("Clone")

(***************************************************************************)
(* C2: the unknown-trait error is only ever produced for an identifier     *)
(* outside the recognized set: no error names a recognized trait.          *)
(***************************************************************************)
C2_OnlyUnknownNamesAreRejected ==
  \A i \in DOMAIN items :
    items[i].kind = "error" =>
      \A n \in KnownTraits : items[i].msg # UnknownTraitMessage(n)

\* The requests with every bundled request named name written as two: the
\* request with its first body only, then the explicit request for its second.
RECURSIVE Unbundle(_, _)
Unbundle(reqs, name) ==
  IF reqs = <<>> THEN <<>>
  ELSE LET q == Head(reqs)
       IN (IF q.name = name /\ WellFormed(q) /\ Bundled(q)
             THEN <<Req(q.name, q.args, <<q.closures[1]>>, FALSE),
                    Req(IF name = "Deref" THEN "DerefMut" ELSE "IndexMut",
                        IF name = "Deref" THEN <<>> ELSE <<"<", q.args[2], ">">>,
                        <<q.closures[2]>>, FALSE)>>
             ELSE <<q>>) \o Unbundle(Tail(reqs), name)

Unbundled(inp, name) ==
  [j \in DOMAIN inp |-> [hdr |-> inp[j].hdr, reqs |-> Unbundle(inp[j].reqs, name)]]

\* The items are as many as the requests reached call for.
Layout == Len(items) = BlocksOutLen(input, Len(input))

IsImplOf(it, trait, fn, def) ==
  it.kind = "impl" /\ it.trait = trait /\ it.fn = fn /\ it.def = def

(***************************************************************************)
(* C3: a Deref<Target = T> request emits a Deref implementation with       *)
(* Target = T whose deref body is its first body; with a bundled second    *)
(* body m it also emits, next, a DerefMut implementation whose deref_mut   *)
(* body is m, and the whole expansion is the one of the invocation where   *)
(* the request has its first body only and is followed by an explicit      *)
(* DerefMut request with body m; without a second body it emits the Deref  *)
(* implementation only.                                                    *)
(***************************************************************************)
C3_DerefBundle ==
  Done =>
    /\ items = Expansion(Unbundled(input, "Deref"))
    /\ Layout
    /\ \A jk \in Positions(input) :
         LET reqs == input[jk[1]].reqs
             q == reqs[jk[2]]
             o == Offset(input, jk[1], jk[2])
         IN (q.name = "Deref" /\ WellFormed(q) /\ Reached(reqs, jk[2])) =>
              /\ IsImplOf(items[o + 1], "std::ops::Deref", "deref", q.closures[1].def)
              /\ items[o + 1].assoc = <<"Target", q.args[4]>>
              /\ items[o + 1].self_ty = input[jk[1]].hdr.self_ty
              /\ Bundled(q) =>
                   /\ IsImplOf(items[o + 2], "std::ops::DerefMut", "deref_mut",
                               q.closures[2].def)
                   /\ items[o + 2].self_ty = input[jk[1]].hdr.self_ty

\* A bundled Deref request, after another request, has been expanded.
C3_Witness ==
  /\ Done
  /\ \E j \in DOMAIN input :
       /\ Len(input[j].reqs) = 2
       /\ WellFormed(input[j].reqs[1])
       /\ input[j].reqs[2].name = "Deref" /\ Bundled(input[j].reqs[2])
  /\ \E i \in DOMAIN items : items[i].kind = "impl" /\ items[i].def = "m6"

(***************************************************************************)
(* C4: an Index<I, Output = O> request emits an Index<I> implementation    *)
(* with Output = O; with a bundled second body it also emits, next, an     *)
(* IndexMut implementation for the same index type I, and the whole        *)
(* expansion is the one of the invocation where the request has its first  *)
(* body only and is followed by a standalone IndexMut<I> request with that *)
(* body; without the bundled body it emits no IndexMut implementation.     *)
(***************************************************************************)
C4_IndexBundle ==
  Done =>
    /\ items = Expansion(Unbundled(input, "Index"))
    /\ Layout
    /\ \A jk \in Positions(input) :
         LET reqs == input[jk[1]].reqs
             q == reqs[jk[2]]
             o == Offset(input, jk[1], jk[2])
         IN (q.name = "Index" /\ WellFormed(q) /\ Reached(reqs, jk[2])) =>
              /\ IsImplOf(items[o + 1], "std::ops::Index", "index", q.closures[1].def)
              /\ items[o + 1].targs = <<q.args[2]>>
              /\ items[o + 1].assoc = <<"Output", q.args[6]>>
              /\ items[o + 1].self_ty = input[jk[1]].hdr.self_ty
              /\ Bundled(q) =>
                   /\ IsImplOf(items[o + 2], "std::ops::IndexMut", "index_mut",
                               q.closures[2].def)
                   /\ items[o + 2].targs = <<q.args[2]>>
                   /\ items[o + 2].self_ty = input[jk[1]].hdr.self_ty

\* A bundled Index request, after another request, has been expanded.
C4_Witness ==
  /\ Done
  /\ \E j \in DOMAIN input :
       /\ Len(input[j].reqs) = 2
       /\ WellFormed(input[j].reqs[1])
       /\ input[j].reqs[2].name = "Index" /\ Bundled(input[j].reqs[2])
  /\ \E i \in DOMAIN items : items[i].kind = "impl" /\ items[i].def = "m9"

\* The trait each recognized name designates.
TraitOf(name) ==
  CASE name = "Display" -> "std::fmt::Display"
    [] name = "Debug" -> "std::fmt::Debug"
    [] name = "From" -> "std::convert::From"
    [] name = "Into" -> "std::convert::Into"
    [] name = "Deref" -> "std::ops::Deref"
    [] name = "DerefMut" -> "std::ops::DerefMut"
    [] name = "Index" -> "std::ops::Index"
    [] name = "IndexMut" -> "std::ops::IndexMut"

\* The trait of the implementation a bundled second body stands for.
BundleTraitOf(name) == IF name = "Deref" THEN "std::ops::DerefMut" ELSE "std::ops::IndexMut"

\* The type arguments written in the request (not its associated types).
TypeArgs(q) ==
  IF q.name \in {"From", "Into", "Index", "IndexMut"} THEN <<q.args[2]>> ELSE <<>>

AllRequests(inp) == {inp[jk[1]].reqs[jk[2]] : jk \in Positions(inp)}

AllWellFormed(inp) == \A q \in AllRequests(inp) : WellFormed(q)

NumRequests(inp) == Cardinality(Positions(inp))

NumBundled(inp) ==
  Cardinality({jk \in Positions(inp) : Bundled(inp[jk[1]].reqs[jk[2]])})

RequestedTraits(inp) ==
  {TraitOf(q.name) : q \in {r \in AllRequests(inp) : r.name \in KnownTraits}}
  \cup {BundleTraitOf(q.name) : q \in {r \in AllRequests(inp) : Bundled(r)}}

(***************************************************************************)
(* C5: every recognized request is rewritten into one implementation of    *)
(* the trait its name designates, with the body and the type arguments     *)
(* written in the request; a well-formed invocation of n requests, b of    *)
(* them with a bundled body, expands to exactly n + b implementations, no  *)
(* error, and no implementation of a trait that was not requested.         *)
(***************************************************************************)
C5_OneImplPerRequest ==
  Done =>
    /\ \A jk \in Positions(input) :
         LET reqs == input[jk[1]].reqs
             q == reqs[jk[2]]
             o == Offset(input, jk[1], jk[2])
         IN (WellFormed(q) /\ Reached(reqs, jk[2])) =>
              /\ o + 1 <= Len(items)
              /\ items[o + 1].kind = "impl"
              /\ items[o + 1].trait = TraitOf(q.name)
              /\ items[o + 1].def = q.closures[1].def
              /\ items[o + 1].targs = TypeArgs(q)
              /\ items[o + 1].self_ty = input[jk[1]].hdr.self_ty
    /\ AllWellFormed(input) =>
         /\ Len(items) = NumRequests(input) + NumBundled(input)
         /\ \A i \in DOMAIN items :
              items[i].kind = "impl" /\ items[i].trait \in RequestedTraits(input)

\* A well-formed invocation of two requests, one of them bundled, is expanded.
C5_Witness ==
  /\ Done /\ AllWellFormed(input)
  /\ NumRequests(input) = 2 /\ NumBundled(input) = 1
  /\ Len(items) = 3

\* The self type and the body of each implementation the requests reached call
\* for, in the order the requests are written.
RECURSIVE OrderOfReqs(_, _)
OrderOfReqs(reqs, ty) ==
  IF reqs = <<>> \/ ~WellFormed(Head(reqs)) THEN <<>>
  ELSE [c \in 1..Len(Head(reqs).closures) |-> <<ty, Head(reqs).closures[c].def>>]
       \o OrderOfReqs(Tail(reqs), ty)

RECURSIVE OrderOfBlocks(_)
OrderOfBlocks(inp) ==
  IF inp = <<>> THEN <<>>
  ELSE OrderOfReqs(Head(inp).reqs, Head(inp).hdr.self_ty) \o OrderOfBlocks(Tail(inp))

IsImplItem(it) == it.kind = "impl"

ImplOrder(its) ==
  LET impls == SelectSeq(its, IsImplItem)
  IN [i \in 1..Len(impls) |-> <<impls[i].self_ty, impls[i].def>>]

(***************************************************************************)
(* C6: the implementations are emitted in the order of the blocks and,     *)
(* within a block, in the order of its requests, the implementation of a   *)
(* bundled second body right after the one of the first body of the same   *)
(* request and before those of any later request.                          *)
(***************************************************************************)
C6_LeftToRight == Done => ImplOrder(items) = OrderOfBlocks(input)

\* A bundled request followed by another request of the block: three
\* implementations, the bundled one in the middle.
C6_Witness ==
  /\ Done
  /\ \E j \in DOMAIN input :
       /\ Len(input[j].reqs) = 2
       /\ Bundled(input[j].reqs[1]) /\ WellFormed(input[j].reqs[2])
  /\ Len(items) = 3 /\ items[2].def \in {"m6", "m9"} /\ items[3].kind = "impl"

\* The rule selected when the rules are tried in another order.
RECURSIVE FirstIn(_, _, _)
FirstIn(order, inv, k) ==
  IF k > Len(order) THEN "none"
  ELSE IF RuleMatches(order[k], inv) THEN order[k]
  ELSE FirstIn(order, inv, k + 1)

\* Orders of the rules that move the recognized-trait rules only.
OtherOrders ==
  { <<"IndexMut", "Index", "DerefMut", "Deref", "Into", "From", "Debug", "Display",
      "unknown", "empty", "base">>,
    <<"Deref", "DerefMut", "Index", "IndexMut", "Display", "Debug", "From", "Into",
      "unknown", "empty", "base">>,
    <<"DerefMut", "Deref", "IndexMut", "Index", "Debug", "Display", "Into", "From",
      "unknown", "empty", "base">> }

(***************************************************************************)
(* C7: expansion is deterministic.  For every pending invocation of        *)
(* internal! at most one of the recognized-trait rules matches, the        *)
(* unknown-trait rule is selected only when none of them does, exactly one *)
(* outcome is selected, and it is the same when the recognized-trait rules *)
(* are tried in another order; the finished expansion is a function of the *)
(* invocation.                                                             *)
(***************************************************************************)
C7_Deterministic ==
  /\ \A i \in DOMAIN items :
       items[i].kind = "internal" =>
         LET inv == items[i]
         IN /\ Cardinality({r \in RecognizedRules : RuleMatches(r, inv)}) <= 1
            /\ Selects(inv, "unknown") =>
                 \A r \in RecognizedRules : ~RuleMatches(r, inv)
            /\ Cardinality({r \in {RuleOrder[k] : k \in DOMAIN RuleOrder} \cup {"none"} :
                              Selects(inv, r)}) = 1
            /\ \A order \in OtherOrders : FirstIn(order, inv, 1) = SelectedRule(inv)
  /\ (Done /\ input # <<>>) => items = Expansion(input)

\* A pending invocation whose first request a recognized-trait rule matches,
\* followed by a request of another trait.
C7_Witness ==
  \E i \in DOMAIN items :
    /\ items[i].kind = "internal"
    /\ SelectedRule(items[i]) = "Deref"
    /\ Cardinality({r \in RecognizedRules : RuleMatches(r, items[i])}) = 1
    /\ \E k \in DOMAIN items[i].toks : items[i].toks[k] = "Display"

HdrParams(h) == IF h.impl = <<>> THEN <<>> ELSE h.impl[1]
HdrWhere(h) == IF h.where = <<>> THEN <<>> ELSE h.where[1]

HasContextOf(it, h) ==
  /\ it.t_params = HdrParams(h)
  /\ it.where_clauses = HdrWhere(h)
  /\ it.self_ty = h.self_ty

\* The block whose output holds place i.
BlockAt(i) ==
  CHOOSE j \in DOMAIN input :
    BlocksOutLen(input, j - 1) < i /\ i <= BlocksOutLen(input, j)

(***************************************************************************)
(* C8: the context of a block is carried unchanged through the expansion:  *)
(* at every step the pending internal! invocation of a block, and every    *)
(* implementation emitted from it (the one of a bundled body included),    *)
(* has exactly the type parameters, where clauses and self type of that    *)
(* block, not those of another block; a block written without impl (..)    *)
(* or where (..) gives empty lists.                                        *)
(***************************************************************************)
C8_ContextCarried ==
  \A i \in DOMAIN items :
    /\ items[i].kind = "impl" =>
         /\ \E j \in DOMAIN input :
              BlocksOutLen(input, j - 1) < i /\ i <= BlocksOutLen(input, j)
         /\ HasContextOf(items[i], input[BlockAt(i)].hdr)
    /\ (items[i].kind = "internal" /\ items[i].at) =>
         /\ i + 1 = Len(items) /\ items[i + 1].kind = "implem"
         /\ Len(items[i + 1].blocks) < Len(input)
         /\ HasContextOf(items[i], input[Len(input) - Len(items[i + 1].blocks)].hdr)

\* Two blocks have emitted implementations: the first with type parameters
\* and where clauses (one of them from a bundled body), the second with none.
C8_Witness ==
  /\ Done /\ Len(items) = 3
  /\ items[1].kind = "impl" /\ items[1].where_clauses # <<>> /\ items[1].t_params # <<>>
  /\ items[2].kind = "impl" /\ items[2].def \in {"m6", "m9"}
  /\ items[2].where_clauses # <<>>
  /\ items[3].kind = "impl" /\ items[3].where_clauses = <<>> /\ items[3].t_params = <<>>

\* Pending requests of an invocation of internal!: one brace group each.
PendingRequests(toks) == Cardinality({k \in DOMAIN toks : toks[k] = "{"})

\* Pending bundled bodies: a comma followed by the bar that opens a body.
PendingBundled(toks) ==
  Cardinality({k \in DOMAIN toks : toks[k] = "," /\ k < Len(toks) /\ toks[k + 1] = "|"})

Pending(toks) == PendingRequests(toks) + PendingBundled(toks)

RECURSIVE BlocksRank(_)
BlocksRank(blocks) ==
  IF blocks = <<>> THEN 0 ELSE 2 + Pending(Head(blocks).stuff) + BlocksRank(Tail(blocks))

ItemRank(it) ==
  CASE it.kind = "implem" -> 1 + BlocksRank(it.blocks)
    [] it.kind = "internal" -> 1 + Pending(it.toks)
    [] OTHER -> 0

RECURSIVE Rank(_)
Rank(its) == IF its = <<>> THEN 0 ELSE ItemRank(Head(its)) + Rank(Tail(its))

\* Some pending invocation can be expanded: the guard of one of the steps holds.
CanExpand ==
  \E i \in DOMAIN items :
    /\ Turn(i)
    /\ \/ items[i].kind = "implem"
       \/ /\ items[i].kind = "internal"
          /\ \E r \in {RuleOrder[k] : k \in DOMAIN RuleOrder} \cup {"none"} :
               Selects(items[i], r)

\* What every step does to the invocation it expands.
StepShrinks ==
  /\ Rank(items') < Rank(items)
  /\ \A i \in DOMAIN items :
       Turn(i) =>
         /\ (items[i].kind = "implem" /\ items[i].blocks # <<>>) =>
              /\ Len(items') = Len(items) + 1
              /\ items'[i + 1].kind = "implem"
              /\ Len(items'[i + 1].blocks) = Len(items[i].blocks) - 1
         /\ (items[i].kind = "internal" /\ items[i].toks # <<>>) =>
              \/ /\ Len(items') = Len(items) + 1
                 /\ items'[i].kind = "impl" /\ items'[i + 1].kind = "internal"
                 /\ Pending(items'[i + 1].toks) < Pending(items[i].toks)
              \/ /\ Len(items') = Len(items)
                 /\ items'[i].kind \in {"error", "nomatch"}

\* The first token of the request the expansion of block j stops at.
StopsAt(j) == input[j].reqs[FirstBad(input[j].reqs)].name

\* How the expansion of each block ended: in the empty state, or in an error
\* of one of the kinds given, which is then the last item of the block.
EndsIn(kinds) ==
  /\ Layout
  /\ \A j \in DOMAIN input :
       LET bad == FirstBad(input[j].reqs)
           last == BlocksOutLen(input, j)
       IN /\ \A i \in (BlocksOutLen(input, j - 1) + 1)..(last - 1) : items[i].kind = "impl"
          /\ bad = 0 =>
               \A i \in (BlocksOutLen(input, j - 1) + 1)..last : items[i].kind = "impl"
          /\ bad # 0 =>
               /\ items[last].kind \in kinds
               /\ items[last].kind = "nomatch" <=> StopsAt(j) \notin IdentToks

NothingRequested == \A j \in DOMAIN input : input[j].reqs = <<>>

C10_ErrorConfinedToBlock ==
  Done =>
    \A j \in DOMAIN input :
      LET reqs == input[j].reqs
          bad == FirstBad(reqs)
          first == BlocksOutLen(input, j - 1)
          n == IF bad = 0 THEN 0 ELSE ClosuresUpTo(reqs, bad - 1)
      IN (bad # 0 /\ UnknownName(reqs[bad])) =>
           /\ Len(items) >= first + n + 1
           /\ \A i \in (first + 1)..(first + n) : items[i].kind = "impl"
           /\ SubSeq(items, first + 1, first + n)
                = Expansion(<<[hdr |-> input[j].hdr, reqs |-> SubSeq(reqs, 1, bad - 1)]>>)
           /\ items[first + n + 1]
                = [kind |-> "error", msg |-> UnknownTraitMessage(reqs[bad].name)]
           /\ Cardinality({i \in (first + 1)..(first + n + 1) : items[i].kind # "impl"}) = 1
           /\ SubSeq(items, first + n + 2, Len(items))
                = ExpandFully(<<ImplemCall(SubSeq(Blocks(input), j + 1, Len(input)))>>)

\* An unknown name with a request after it in its block, and a later block
\* that has emitted an implementation.
C10_Witness ==
  /\ Done
  /\ Len(input) = 2
  /\ Len(input[1].reqs) = 1 /\ UnknownName(input[1].reqs[1])
  /\ Len(items) = 2 /\ items[1].kind = "error" /\ items[2].kind = "impl"

====
